---- MODULE Spec2Model ----
(***************************************************************************)
(* GraphQL resolver layer of the books/authors API (src/index.js).         *)
(*                                                                         *)
(* src/index.js holds two programs.  The first (lines 1-270) keeps the     *)
(* books in an in-memory array ("embedded" variant).  The second (lines    *)
(* 271-720) proxies every operation to a REST backend ("proxy" variant).   *)
(* A run of the system is a run of one of the two, so Init chooses the     *)
(* variant and the resolvers of the other variant are disabled.  The first *)
(* program also has resolvers that go to a REST backend; of these          *)
(* updateBookInRestApi is modelled.                                        *)
(*                                                                         *)
(* Spec takes one request at a time; SpecConc has two requests in flight.  *)
(*                                                                         *)
(* Values.  A JavaScript value that may be undefined/null is modelled as   *)
(* a sequence of length at most one: <<>> is undefined (an omitted         *)
(* GraphQL argument, a missing property), <<v>> is the value v.  Record    *)
(* identifiers are natural numbers; in the embedded variant 1 and 2 stand  *)
(* for the two literal uuids of the initial array and uuid() returns an    *)
(* identifier that was never issued before.  Identifiers, titles and names *)
(* are taken to be URL-safe, so that the query string the resolver builds  *)
(* by concatenation carries exactly the value of the argument.             *)
(***************************************************************************)
EXTENDS Integers, Sequences, FiniteSets, TLC

VARIABLES variant, books, apiAuthors, apiBooks, nextId, reqs, ops

vars == <<variant, books, apiAuthors, apiBooks, nextId, reqs, ops>>

(***************************************************************************)
(* Bounds of the model.                                                    *)
(***************************************************************************)
\* number of resolver calls in one run
MaxOps == 2
\* number of optional arguments one updateBook / updateAuthor call supplies
MaxSupplied == 1
\* request slots that may be in flight at once in the sequential specification
SeqSlots == {1}

(***************************************************************************)
(* JavaScript values.                                                      *)
(***************************************************************************)
Undefined == <<>>

Some(v) == <<v>>

\* ToBoolean of a string-or-undefined value: undefined and "" are falsy
TruthyStr(x) == x # Undefined /\ x # Some("")

\* ToBoolean of a number-or-undefined value: undefined and 0 are falsy
TruthyInt(x) == x # Undefined /\ x # Some(0)

\* the conditional expression  arg ? arg : old  on a string field
OrElseStr(arg, old) == IF TruthyStr(arg) THEN arg ELSE old

\* mutant: the test is  arg !== undefined
OrElseInt_DefinedOnly(arg, old) == IF arg # Undefined THEN arg ELSE old

\* the conditional expression  arg ? arg : old  on a numeric field
OrElseInt(arg, old) == IF TruthyInt(arg) THEN arg ELSE old

(***************************************************************************)
(* Errors a resolver raises.  code is the GraphQL extensions code          *)
(* (Undefined for a plain Error), message the text and its parameter.      *)
(***************************************************************************)
NoError == [code |-> Undefined, message |-> <<>>]

BadUserInput(text, param) == [code |-> Some("BAD_USER_INPUT"), message |-> <<text, param>>]

PlainError(text) == [code |-> Undefined, message |-> <<text>>]

Null == <<>>

Idle == [pc |-> "idle"]

IsIdle(s) == reqs[s].pc = "idle"

IsDone(s) == reqs[s].pc = "done"

\* a finished resolver call: what it was called with, what it returned or
\* raised, the collection it started from and the outbound calls it made
Done(op, args, result, err, pre, calls) ==
    [pc |-> "done", op |-> op, args |-> args, local |-> Null, result |-> result, err |-> err,
     pre |-> pre, calls |-> calls]

(***************************************************************************)
(* Embedded variant: the books array and its resolvers.                    *)
(***************************************************************************)
InitialBooks ==
    << [id |-> 1, title |-> Some("The Awakening"), description |-> Some("D1"),
        isbn |-> Undefined, publisher |-> Some("W W Norton & Co Inc"),
        gender |-> Some("NONE"), publishYear |-> Some(1899),
        authorName |-> Some("Kate Chopin"), authorNationality |-> Undefined],
       [id |-> 2, title |-> Some("City of Glass"), description |-> Some("D2"),
        isbn |-> Some("978-0140097313"), publisher |-> Some("Simon & Schuster"),
        gender |-> Some("FANTASY"), publishYear |-> Some(2009),
        authorName |-> Some("Paul Auster"), authorNationality |-> Some("Estadounidense")] >>

Titles == {"The Awakening", "City of Glass", "X"}

\* argument bundles of addBook (embedded): title, publisher, gender and
\* authorName are required by the schema, the others may be omitted
AddBookArgs ==
    { [title |-> Some(t), description |-> d, isbn |-> Undefined, publisher |-> Some("P"),
       gender |-> Some("FANTASY"), publishYear |-> y, authorName |-> Some("A"),
       authorNationality |-> Undefined] :
         t \in Titles, d \in {Undefined, Some("D")}, y \in {Undefined, Some(1999)} }

UpdateFields ==
    {"title", "description", "isbn", "publisher", "gender", "publishYear",
     "authorName", "authorNationality"}

Supplied(a, fields) == {f \in fields : a[f] # Undefined}

\* the argument is "" (a string argument) or 0 (a year)
FalsyArg(f, x) ==
    IF f \in {"publishYear", "year"} THEN x = Some(0)
    ELSE IF f = "authorId" THEN FALSE ELSE x = Some("")

\* the calls the model makes supply at most MaxSupplied optional arguments;
\* a falsy argument is supplied alone
Bundle(a, fields) ==
    /\ Cardinality(Supplied(a, fields)) <= MaxSupplied
    /\ Cardinality(Supplied(a, fields)) > 1 =>
           \A f \in Supplied(a, fields) : ~FalsyArg(f, a[f])

\* argument bundles of updateBook (embedded) without the id: every argument
\* is omitted, falsy ("" or 0) or a value
UpdateBookArgs ==
    { a \in { [title |-> t, description |-> d, isbn |-> i, publisher |-> p, gender |-> g,
               publishYear |-> y, authorName |-> n, authorNationality |-> l] :
                 t \in {Undefined, Some("")} \cup {Some(x) : x \in Titles},
                 d \in {Undefined, Some(""), Some("D'")},
                 i \in {Undefined, Some(""), Some("I'")},
                 p \in {Undefined, Some(""), Some("P'")},
                 g \in {Undefined, Some("ROMANCE")},
                 y \in {Undefined, Some(0), Some(2024)},
                 n \in {Undefined, Some(""), Some("A'")},
                 l \in {Undefined, Some(""), Some("L'")} } :
        Bundle(a, UpdateFields) }

\* the argument bundle args together with the id argument
WithId(args, id) == [id |-> id] @@ args

\* books.findIndex(book => book.id === id), 0 standing for -1
FindIndex(bs, id) ==
    IF \E i \in 1..Len(bs) : bs[i].id = id
    THEN CHOOSE i \in 1..Len(bs) : bs[i].id = id /\ \A j \in 1..(i-1) : bs[j].id # id
    ELSE 0

\* mutant: the search compares the title of the last book only
FindTitle_LastOnly(bs, title) == Len(bs) > 0 /\ bs[Len(bs)].title = title

\* books.find(b => b.title === title) is not undefined
FindTitle(bs, title) == \E i \in 1..Len(bs) : bs[i].title = title

\* mutant: the id is derived from the length of the array
NewBook_LengthId(args, id) ==
    [id |-> Len(books) + 1, title |-> args.title, description |-> args.description,
     isbn |-> args.isbn, publisher |-> args.publisher, gender |-> args.gender,
     publishYear |-> args.publishYear, authorName |-> args.authorName,
     authorNationality |-> args.authorNationality]

\* {...args, id: uuid()}
NewBook(args, id) ==
    [id |-> id, title |-> args.title, description |-> args.description, isbn |-> args.isbn,
     publisher |-> args.publisher, gender |-> args.gender, publishYear |-> args.publishYear,
     authorName |-> args.authorName, authorNationality |-> args.authorNationality]

\* the object literal of updateBook: {...book, field: args.field ? args.field : book.field}
UpdatedBook(book, args) ==
    [id |-> book.id,
     title |-> OrElseStr(args.title, book.title),
     description |-> OrElseStr(args.description, book.description),
     isbn |-> OrElseStr(args.isbn, book.isbn),
     publisher |-> OrElseStr(args.publisher, book.publisher),
     gender |-> OrElseStr(args.gender, book.gender),
     publishYear |-> OrElseInt(args.publishYear, book.publishYear),
     authorName |-> OrElseStr(args.authorName, book.authorName),
     authorNationality |-> OrElseStr(args.authorNationality, book.authorNationality)]

\* mutant: books.splice(i), which removes every book from i on
Splice_ToEnd(bs, i) == SubSeq(bs, 1, i - 1)

\* books.splice(i, 1)
Splice(bs, i) == [k \in 1..(Len(bs) - 1) |-> IF k < i THEN bs[k] ELSE bs[k + 1]]

\* Query.getBooksCount
getBooksCount == Len(books)

\* Query.getBook: books.find(book => book.id === id)
getBook(id) == IF FindIndex(books, id) = 0 THEN Undefined ELSE Some(books[FindIndex(books, id)])

CanCall(s) == IsIdle(s) /\ ops < MaxOps

\* mutant: the book is pushed without the search for its title
addBook_NoCheck(s) ==
    /\ variant = "embedded"
    /\ CanCall(s)
    /\ ops' = ops + 1
    /\ \E args \in AddBookArgs :
          /\ books' = Append(books, NewBook(args, nextId))
          /\ nextId' = nextId + 1
          /\ reqs' = [reqs EXCEPT ![s] =
                 Done("addBook", args, Some(NewBook(args, nextId)), NoError, books, <<>>)]
    /\ UNCHANGED <<variant, apiAuthors, apiBooks>>

addBook(s) ==
    /\ variant = "embedded"
    /\ CanCall(s)
    /\ ops' = ops + 1
    /\ \E args \in AddBookArgs :
       IF FindTitle(books, args.title)
       THEN /\ reqs' = [reqs EXCEPT ![s] =
                   Done("addBook", args, Null, BadUserInput("Title must be unique", Undefined),
                        books, <<>>)]
            /\ UNCHANGED <<books, nextId>>
       ELSE /\ books' = Append(books, NewBook(args, nextId))
            /\ nextId' = nextId + 1
            /\ reqs' = [reqs EXCEPT ![s] =
                   Done("addBook", args, Some(NewBook(args, nextId)), NoError, books, <<>>)]
    /\ UNCHANGED <<variant, apiAuthors, apiBooks>>

updateBook(s) ==
    /\ variant = "embedded"
    /\ CanCall(s)
    /\ ops' = ops + 1
    /\ \E id \in 1..nextId, fields \in UpdateBookArgs :
       LET args == WithId(fields, id)
           updatedBookIndex == FindIndex(books, args.id)
       IN  IF updatedBookIndex = 0
           THEN /\ reqs' = [reqs EXCEPT ![s] =
                       Done("updateBook", args, Null, NoError, books, <<>>)]
                /\ UNCHANGED books
           ELSE LET updatedBook == UpdatedBook(books[updatedBookIndex], args)
                IN  /\ books' = [books EXCEPT ![updatedBookIndex] = updatedBook]
                    /\ reqs' = [reqs EXCEPT ![s] =
                           Done("updateBook", args, Some(updatedBook), NoError, books, <<>>)]
    /\ UNCHANGED <<variant, apiAuthors, apiBooks, nextId>>

\* mutant: no early return when findIndex yields -1, so splice(-1, 1)
\* removes the last book
deleteBook_NoGuard(s) ==
    /\ variant = "embedded"
    /\ CanCall(s)
    /\ ops' = ops + 1
    /\ \E id \in 1..nextId :
       LET found == FindIndex(books, id)
           deletedBookIndex == IF found = 0 THEN Len(books) ELSE found
       IN  IF Len(books) = 0
           THEN /\ reqs' = [reqs EXCEPT ![s] =
                       Done("deleteBook", [id |-> id], Null, NoError, books, <<>>)]
                /\ UNCHANGED books
           ELSE /\ books' = Splice(books, deletedBookIndex)
                /\ reqs' = [reqs EXCEPT ![s] =
                       Done("deleteBook", [id |-> id], Some(books[deletedBookIndex]), NoError,
                            books, <<>>)]
    /\ UNCHANGED <<variant, apiAuthors, apiBooks, nextId>>

deleteBook(s) ==
    /\ variant = "embedded"
    /\ CanCall(s)
    /\ ops' = ops + 1
    /\ \E id \in 1..nextId :
       LET deletedBookIndex == FindIndex(books, id)
       IN  IF deletedBookIndex = 0
           THEN /\ reqs' = [reqs EXCEPT ![s] =
                       Done("deleteBook", [id |-> id], Null, NoError, books, <<>>)]
                /\ UNCHANGED books
           ELSE /\ books' = Splice(books, deletedBookIndex)
                /\ reqs' = [reqs EXCEPT ![s] =
                       Done("deleteBook", [id |-> id], Some(books[deletedBookIndex]), NoError,
                            books, <<>>)]
    /\ UNCHANGED <<variant, apiAuthors, apiBooks, nextId>>

(***************************************************************************)
(* Proxy variant: the REST backend and the outbound calls.                 *)
(*                                                                         *)
(* apiAuthors and apiBooks are the two collections of the backend.  Every  *)
(* outbound call is one step: the backend serves it atomically, or the     *)
(* call fails with a refused connection or with a 500 response and leaves  *)
(* the backend as it was.  A point lookup of a missing id is a 404.        *)
(***************************************************************************)
InitialApiAuthors ==
    << [id |-> 1, name |-> Some("Kate Chopin"), nationality |-> Undefined],
       [id |-> 2, name |-> Some("Paul Auster"), nationality |-> Some("Estadounidense")] >>

InitialApiBooks ==
    << [id |-> 1, title |-> Some("The Awakening"), description |-> Some("D1"),
        isbn |-> Undefined, publisher |-> Some("W W Norton & Co Inc"),
        gender |-> Some("FICTION"), year |-> Some(1899), author_id |-> Some(1)] >>

Names == {"Kate Chopin", "Paul Auster", "N"}

NetOutcomes == {"ok", "ECONNREFUSED", "HTTP500"}

\* the error object axios rejects with
AxiosError(outcome) ==
    CASE outcome = "ECONNREFUSED" ->
           [code |-> "ECONNREFUSED", message |-> "connect ECONNREFUSED"]
      [] outcome = "HTTP500" ->
           [code |-> "ERR_BAD_RESPONSE", message |-> "Request failed with status code 500"]
      [] outcome = "HTTP404" ->
           [code |-> "ERR_BAD_REQUEST", message |-> "Request failed with status code 404"]

\* outcome of GET /<collection>/<id>
LookupOutcome(table, id, net) ==
    IF net # "ok" THEN net ELSE IF FindIndex(table, id) = 0 THEN "HTTP404" ELSE "ok"

\* response data of a successful GET /<collection>/<id>
Lookup(table, id) == table[FindIndex(table, id)]

\* GET /authors?name=<name>
AuthorsByName(name) == SelectSeq(apiAuthors, LAMBDA a : a.name = name)

\* mutant: the query string has no id_ne parameter
AuthorsByNameExcept_NoExclusion(name, id) == SelectSeq(apiAuthors, LAMBDA a : a.name = name)

\* GET /authors?name=<name>&id_ne=<id>
AuthorsByNameExcept(name, id) == SelectSeq(apiAuthors, LAMBDA a : a.name = name /\ a.id # id)

\* GET /books?title=<title>
BooksByTitle(title) == SelectSeq(apiBooks, LAMBDA b : b.title = title)

\* mutant: the query string says id= where it should say id_ne=
BooksByTitleExcept_IdEq(title, id) ==
    SelectSeq(apiBooks, LAMBDA b : b.title = title /\ b.id = id)

\* GET /books?title=<title>&id_ne=<id>
BooksByTitleExcept(title, id) == SelectSeq(apiBooks, LAMBDA b : b.title = title /\ b.id # id)

\* GET /books?author_id=<id>
BooksByAuthorId(id) == SelectSeq(apiBooks, LAMBDA b : b.author_id = Some(id))

\* PUT /<collection>/<id>: the stored record becomes the body, under the same id
Replace(table, id, body) == [table EXCEPT ![FindIndex(table, id)] = [id |-> id] @@ body]

\* DELETE /<collection>/<id>
Remove(table, id) == Splice(table, FindIndex(table, id))

\* mutant: the test is list.length > 1
NonEmpty_OffByOne(list) == Len(list) > 1

\* the test  list.length > 0  of the uniqueness checks
NonEmpty(list) == Len(list) > 0

\* catch (error) { if (error.code === 'ECONNREFUSED') throw new Error('Error al
\* conectar con el API'); throw new Error(error.message); }
CatchRethrow(error) ==
    IF error.code = "ECONNREFUSED"
    THEN PlainError("Error al conectar con el API")
    ELSE PlainError(error.message)

\* mutant: the catch block of the write calls is used for the lookup
CatchNotFound_Rethrow(error, text, id) ==
    IF error.code = "ECONNREFUSED"
    THEN PlainError("Error al conectar con el API")
    ELSE PlainError(error.message)

\* catch (error) { if (error.code === 'ECONNREFUSED') throw new Error(...);
\* throw new GraphQLError(text + id, {extensions: {code: 'BAD_USER_INPUT'}}); }
CatchNotFound(error, text, id) ==
    IF error.code = "ECONNREFUSED"
    THEN PlainError("Error al conectar con el API")
    ELSE BadUserInput(text, id)

\* a resolver call suspended at an await
Await(op, args, pc, pre) ==
    [pc |-> pc, op |-> op, args |-> args, local |-> Null, result |-> Null, err |-> NoError,
     pre |-> pre, calls |-> <<>>]

Backend == [authors |-> apiAuthors, books |-> apiBooks]

\* the outbound call the request has just made
Logged(r, method, url, outcome) ==
    [r EXCEPT !.calls = Append(@, [method |-> method, url |-> url, outcome |-> outcome])]

Raise(r, err) == [r EXCEPT !.pc = "done", !.err = err]

Return(r, result) == [r EXCEPT !.pc = "done", !.result = result]

Goto(r, pc) == [r EXCEPT !.pc = pc]

CanCallProxy(s) == variant = "proxy" /\ CanCall(s)

\* a resolver of the proxy variant is called and runs up to its first await
Start(s, op, args, pc) ==
    /\ ops' = ops + 1
    /\ reqs' = [reqs EXCEPT ![s] = Await(op, args, pc, Backend)]
    /\ UNCHANGED <<variant, books, apiAuthors, apiBooks, nextId>>

At(s, op, pc) == variant = "proxy" /\ reqs[s].pc = pc /\ reqs[s].op = op

ReadOnly == UNCHANGED <<variant, books, apiAuthors, apiBooks, nextId, ops>>

AddAuthorArgs == { [name |-> Some(n), nationality |-> l] : n \in Names, l \in {Undefined, Some("L")} }

\* name is required by the schema (it may be the empty string)
UpdateAuthorArgs ==
    { [name |-> n, nationality |-> l] :
        n \in {Some("")} \cup {Some(x) : x \in Names}, l \in {Undefined, Some(""), Some("L'")} }

\* ids a client passes: those of the stored records and one that no record has
IdArgs(table) == {table[i].id : i \in 1..Len(table)} \cup {nextId}

Proxy_addAuthor(s) ==
    /\ CanCallProxy(s)
    /\ \E args \in AddAuthorArgs : Start(s, "addAuthor", args, "checkName")

Proxy_addAuthor_checkName(s) ==
    /\ At(s, "addAuthor", "checkName")
    /\ \E net \in NetOutcomes :
       LET r == Logged(reqs[s], "GET", "/authors?name=", net)
           authors == AuthorsByName(r.args.name)
       IN  reqs' = [reqs EXCEPT ![s] =
               IF net # "ok" THEN Raise(r, CatchRethrow(AxiosError(net)))
               ELSE IF NonEmpty(authors)
                    THEN Raise(r, BadUserInput("El nombre del autor ya existe", Undefined))
                    ELSE Goto(r, "post")]
    /\ ReadOnly

Proxy_addAuthor_post(s) ==
    /\ At(s, "addAuthor", "post")
    /\ \E net \in NetOutcomes :
       LET r == Logged(reqs[s], "POST", "/authors", net)
           newAuthor == [name |-> r.args.name, nationality |-> r.args.nationality]
           author == [id |-> nextId] @@ newAuthor
       IN  IF net # "ok"
           THEN /\ reqs' = [reqs EXCEPT ![s] = Raise(r, CatchRethrow(AxiosError(net)))]
                /\ UNCHANGED <<apiAuthors, nextId>>
           ELSE /\ apiAuthors' = Append(apiAuthors, author)
                /\ nextId' = nextId + 1
                /\ reqs' = [reqs EXCEPT ![s] = Return(r, Some(author))]
    /\ UNCHANGED <<variant, books, apiBooks, ops>>

Proxy_updateAuthor(s) ==
    /\ CanCallProxy(s)
    /\ \E id \in IdArgs(apiAuthors), args \in UpdateAuthorArgs :
           Start(s, "updateAuthor", WithId(args, id), "get")

Proxy_updateAuthor_get(s) ==
    /\ At(s, "updateAuthor", "get")
    /\ \E net \in NetOutcomes :
       LET out == LookupOutcome(apiAuthors, reqs[s].args.id, net)
           r == Logged(reqs[s], "GET", "/authors/:id", out)
       IN  reqs' = [reqs EXCEPT ![s] =
               IF out # "ok"
               THEN Raise(r, CatchNotFound(AxiosError(out), "No existe el author con el ID: ",
                                           r.args.id))
               ELSE Goto([r EXCEPT !.local = Some(Lookup(apiAuthors, r.args.id))],
                         IF TruthyStr(r.args.name) THEN "checkName" ELSE "put")]
    /\ ReadOnly

Proxy_updateAuthor_checkName(s) ==
    /\ At(s, "updateAuthor", "checkName")
    /\ \E net \in NetOutcomes :
       LET r == Logged(reqs[s], "GET", "/authors?name=&id_ne=", net)
           authors == AuthorsByNameExcept(r.args.name, r.args.id)
       IN  reqs' = [reqs EXCEPT ![s] =
               IF net # "ok" THEN Raise(r, CatchRethrow(AxiosError(net)))
               ELSE IF NonEmpty(authors)
                    THEN Raise(r, BadUserInput("El nombre del libro ya existe", Undefined))
                    ELSE Goto(r, "put")]
    /\ ReadOnly

\* the object literal updatedAuthorData
UpdatedAuthorData(author, args) ==
    [name |-> OrElseStr(args.name, author.name),
     nationality |-> OrElseStr(args.nationality, author.nationality)]

\* PUT /<collection>/<id> of a record another request has deleted meanwhile is a 404
WriteOutcome(table, id, net) == LookupOutcome(table, id, net)

Proxy_updateAuthor_put(s) ==
    /\ At(s, "updateAuthor", "put")
    /\ \E net \in NetOutcomes :
       LET author == reqs[s].local[1]
           out == WriteOutcome(apiAuthors, author.id, net)
           r == Logged(reqs[s], "PUT", "/authors/:id", out)
           updatedAuthorData == UpdatedAuthorData(author, r.args)
       IN  IF out # "ok"
           THEN /\ reqs' = [reqs EXCEPT ![s] = Raise(r, CatchRethrow(AxiosError(out)))]
                /\ UNCHANGED apiAuthors
           ELSE /\ apiAuthors' = Replace(apiAuthors, author.id, updatedAuthorData)
                /\ reqs' = [reqs EXCEPT ![s] =
                       Return(r, Some([id |-> author.id] @@ updatedAuthorData))]
    /\ UNCHANGED <<variant, books, apiBooks, nextId, ops>>

Proxy_deleteAuthor(s) ==
    /\ CanCallProxy(s)
    /\ \E id \in IdArgs(apiAuthors) : Start(s, "deleteAuthor", [id |-> id], "get")

Proxy_deleteAuthor_get(s) ==
    /\ At(s, "deleteAuthor", "get")
    /\ \E net \in NetOutcomes :
       LET out == LookupOutcome(apiAuthors, reqs[s].args.id, net)
           r == Logged(reqs[s], "GET", "/authors/:id", out)
       IN  reqs' = [reqs EXCEPT ![s] =
               IF out # "ok"
               THEN Raise(r, CatchNotFound(AxiosError(out), "No existe el autor con el ID: ",
                                           r.args.id))
               ELSE Goto(r, "delete")]
    /\ ReadOnly

\* the body of the backend's answer to a DELETE
EmptyObject == Some("{}")

Proxy_deleteAuthor_delete(s) ==
    /\ At(s, "deleteAuthor", "delete")
    /\ \E net \in NetOutcomes :
       LET out == WriteOutcome(apiAuthors, reqs[s].args.id, net)
           r == Logged(reqs[s], "DELETE", "/authors/:id", out)
       IN  IF out # "ok"
           THEN /\ reqs' = [reqs EXCEPT ![s] = Raise(r, CatchRethrow(AxiosError(out)))]
                /\ UNCHANGED apiAuthors
           ELSE /\ apiAuthors' = Remove(apiAuthors, r.args.id)
                /\ reqs' = [reqs EXCEPT ![s] = Return(r, EmptyObject)]
    /\ UNCHANGED <<variant, books, apiBooks, nextId, ops>>

\* argument bundles of addBook (proxy) without the authorId
ProxyAddBookArgs ==
    { [title |-> Some(t), description |-> d, isbn |-> Undefined, publisher |-> Some("P"),
       gender |-> Some("FANTASY"), year |-> Some(1999)] :
         t \in Titles, d \in {Undefined, Some("D")} }

ProxyUpdateFields == {"title", "description", "isbn", "publisher", "gender", "year"}

\* argument bundles of updateBook (proxy) without the id and the authorId
ProxyUpdateBookArgs ==
    { a \in { [title |-> t, description |-> d, isbn |-> i, publisher |-> p, gender |-> g,
               year |-> y] :
                 t \in {Undefined, Some("")} \cup {Some(x) : x \in Titles},
                 d \in {Undefined, Some(""), Some("D'")},
                 i \in {Undefined, Some(""), Some("I'")},
                 p \in {Undefined, Some(""), Some("P'")},
                 g \in {Undefined, Some("ROMANCE")},
                 y \in {Undefined, Some(0), Some(2024)} } :
        Bundle(a, ProxyUpdateFields) }

\* the authorId argument: omitted, or an id (a non-empty string, hence truthy)
WithAuthorId(args, authorId) == [authorId |-> authorId] @@ args

TruthyId(x) == x # Undefined

Proxy_addBook(s) ==
    /\ CanCallProxy(s)
    /\ \E args \in ProxyAddBookArgs, authorId \in IdArgs(apiAuthors) :
           Start(s, "addBook", WithAuthorId(args, Some(authorId)), "checkTitle")

\* mutant: the title check finds the book and does not throw
Proxy_addBook_checkTitle_NoThrow(s) ==
    /\ At(s, "addBook", "checkTitle")
    /\ \E net \in NetOutcomes :
       LET r == Logged(reqs[s], "GET", "/books?title=", net)
       IN  reqs' = [reqs EXCEPT ![s] =
               IF net # "ok" THEN Raise(r, CatchRethrow(AxiosError(net)))
               ELSE Goto(r, "checkAuthor")]
    /\ ReadOnly

Proxy_addBook_checkTitle(s) ==
    /\ At(s, "addBook", "checkTitle")
    /\ \E net \in NetOutcomes :
       LET r == Logged(reqs[s], "GET", "/books?title=", net)
           found == BooksByTitle(r.args.title)
       IN  reqs' = [reqs EXCEPT ![s] =
               IF net # "ok" THEN Raise(r, CatchRethrow(AxiosError(net)))
               ELSE IF NonEmpty(found)
                    THEN Raise(r, BadUserInput("El titulo del libro ya existe", Undefined))
                    ELSE Goto(r, "checkAuthor")]
    /\ ReadOnly

\* mutant: the catch block of the author lookup logs the error and the
\* resolver goes on to the POST
Proxy_addBook_checkAuthor_Continue(s) ==
    /\ At(s, "addBook", "checkAuthor")
    /\ \E net \in NetOutcomes :
       LET out == LookupOutcome(apiAuthors, reqs[s].args.authorId[1], net)
           r == Logged(reqs[s], "GET", "/authors/:id", out)
       IN  reqs' = [reqs EXCEPT ![s] = Goto(r, "post")]
    /\ ReadOnly

Proxy_addBook_checkAuthor(s) ==
    /\ At(s, "addBook", "checkAuthor")
    /\ \E net \in NetOutcomes :
       LET out == LookupOutcome(apiAuthors, reqs[s].args.authorId[1], net)
           r == Logged(reqs[s], "GET", "/authors/:id", out)
       IN  reqs' = [reqs EXCEPT ![s] =
               IF out # "ok"
               THEN Raise(r, CatchNotFound(AxiosError(out), "No existe el autor con el ID: ",
                                           r.args.authorId[1]))
               ELSE Goto(r, "post")]
    /\ ReadOnly

\* the object literal newBook
NewBookData(args) ==
    [title |-> args.title, description |-> args.description, isbn |-> args.isbn,
     publisher |-> args.publisher, gender |-> args.gender, year |-> args.year,
     author_id |-> args.authorId]

Proxy_addBook_post(s) ==
    /\ At(s, "addBook", "post")
    /\ \E net \in NetOutcomes :
       LET r == Logged(reqs[s], "POST", "/books", net)
           book == [id |-> nextId] @@ NewBookData(r.args)
       IN  IF net # "ok"
           THEN /\ reqs' = [reqs EXCEPT ![s] = Raise(r, CatchRethrow(AxiosError(net)))]
                /\ UNCHANGED <<apiBooks, nextId>>
           ELSE /\ apiBooks' = Append(apiBooks, book)
                /\ nextId' = nextId + 1
                /\ reqs' = [reqs EXCEPT ![s] = Return(r, Some(book))]
    /\ UNCHANGED <<variant, books, apiAuthors, ops>>

\* the two arguments updateBook checks against the backend, title and
\* authorId, supplied together
CheckedPair(a, fields) == Supplied(a, fields) = {"title", "authorId"} /\ TruthyStr(a.title)

Proxy_updateBook(s) ==
    /\ CanCallProxy(s)
    /\ \E id \in IdArgs(apiBooks), args \in ProxyUpdateBookArgs,
          authorId \in {Undefined} \cup {Some(a) : a \in IdArgs(apiAuthors)} :
           /\ \/ Bundle(WithAuthorId(args, authorId), ProxyUpdateFields \cup {"authorId"})
              \/ CheckedPair(WithAuthorId(args, authorId), ProxyUpdateFields \cup {"authorId"})
           /\ Start(s, "updateBook", WithId(WithAuthorId(args, authorId), id), "get")

\* mutant: the author is checked before the title
AfterGet_AuthorFirst(args) ==
    IF TruthyId(args.authorId) THEN "checkAuthor"
    ELSE IF TruthyStr(args.title) THEN "checkTitle" ELSE "put"

\* where updateBook continues after the lookup of the book, and after the title check
AfterGet(args) ==
    IF TruthyStr(args.title) THEN "checkTitle"
    ELSE IF TruthyId(args.authorId) THEN "checkAuthor" ELSE "put"

\* mutant: after the title check the resolver goes straight to the PUT
AfterCheckTitle_SkipAuthor(args) == "put"

AfterCheckTitle(args) == IF TruthyId(args.authorId) THEN "checkAuthor" ELSE "put"

Proxy_updateBook_get(s) ==
    /\ At(s, "updateBook", "get")
    /\ \E net \in NetOutcomes :
       LET out == LookupOutcome(apiBooks, reqs[s].args.id, net)
           r == Logged(reqs[s], "GET", "/books/:id", out)
       IN  reqs' = [reqs EXCEPT ![s] =
               IF out # "ok"
               THEN Raise(r, CatchNotFound(AxiosError(out), "No existe el libro con el ID: ",
                                           r.args.id))
               ELSE Goto([r EXCEPT !.local = Some(Lookup(apiBooks, r.args.id))],
                         AfterGet(r.args))]
    /\ ReadOnly

Proxy_updateBook_checkTitle(s) ==
    /\ At(s, "updateBook", "checkTitle")
    /\ \E net \in NetOutcomes :
       LET r == Logged(reqs[s], "GET", "/books?title=&id_ne=", net)
           found == BooksByTitleExcept(r.args.title, r.args.id)
       IN  reqs' = [reqs EXCEPT ![s] =
               IF net # "ok" THEN Raise(r, CatchRethrow(AxiosError(net)))
               ELSE IF NonEmpty(found)
                    THEN Raise(r, BadUserInput("El titulo del libro ya existe", Undefined))
                    ELSE Goto(r, AfterCheckTitle(r.args))]
    /\ ReadOnly

Proxy_updateBook_checkAuthor(s) ==
    /\ At(s, "updateBook", "checkAuthor")
    /\ \E net \in NetOutcomes :
       LET out == LookupOutcome(apiAuthors, reqs[s].args.authorId[1], net)
           r == Logged(reqs[s], "GET", "/authors/:id", out)
       IN  reqs' = [reqs EXCEPT ![s] =
               IF out # "ok"
               THEN Raise(r, CatchNotFound(AxiosError(out), "No existe el autor con el ID: ",
                                           r.args.authorId[1]))
               ELSE Goto(r, "put")]
    /\ ReadOnly

\* book.authorName: the records of the backend have no authorName property
AuthorNameOf(book) == Undefined

\* the object literal updatedBookData
UpdatedBookData(book, args) ==
    [title |-> OrElseStr(args.title, book.title),
     description |-> OrElseStr(args.description, book.description),
     isbn |-> OrElseStr(args.isbn, book.isbn),
     publisher |-> OrElseStr(args.publisher, book.publisher),
     gender |-> OrElseStr(args.gender, book.gender),
     year |-> OrElseInt(args.year, book.year),
     author_id |-> IF TruthyId(args.authorId) THEN args.authorId ELSE AuthorNameOf(book)]

Proxy_updateBook_put(s) ==
    /\ At(s, "updateBook", "put")
    /\ \E net \in NetOutcomes :
       LET book == reqs[s].local[1]
           out == WriteOutcome(apiBooks, book.id, net)
           r == Logged(reqs[s], "PUT", "/books/:id", out)
           updatedBookData == UpdatedBookData(book, r.args)
       IN  IF out # "ok"
           THEN /\ reqs' = [reqs EXCEPT ![s] = Raise(r, CatchRethrow(AxiosError(out)))]
                /\ UNCHANGED apiBooks
           ELSE /\ apiBooks' = Replace(apiBooks, book.id, updatedBookData)
                /\ reqs' = [reqs EXCEPT ![s] =
                       Return(r, Some([id |-> book.id] @@ updatedBookData))]
    /\ UNCHANGED <<variant, books, apiAuthors, nextId, ops>>

Proxy_deleteBook(s) ==
    /\ CanCallProxy(s)
    /\ \E id \in IdArgs(apiBooks) : Start(s, "deleteBook", [id |-> id], "get")

Proxy_deleteBook_get(s) ==
    /\ At(s, "deleteBook", "get")
    /\ \E net \in NetOutcomes :
       LET out == LookupOutcome(apiBooks, reqs[s].args.id, net)
           r == Logged(reqs[s], "GET", "/books/:id", out)
       IN  reqs' = [reqs EXCEPT ![s] =
               IF out # "ok"
               THEN Raise(r, CatchNotFound(AxiosError(out), "No existe el libro con el ID: ",
                                           r.args.id))
               ELSE Goto(r, "delete")]
    /\ ReadOnly

Proxy_deleteBook_delete(s) ==
    /\ At(s, "deleteBook", "delete")
    /\ \E net \in NetOutcomes :
       LET out == WriteOutcome(apiBooks, reqs[s].args.id, net)
           r == Logged(reqs[s], "DELETE", "/books/:id", out)
       IN  IF out # "ok"
           THEN /\ reqs' = [reqs EXCEPT ![s] = Raise(r, CatchRethrow(AxiosError(out)))]
                /\ UNCHANGED apiBooks
           ELSE /\ apiBooks' = Remove(apiBooks, r.args.id)
                /\ reqs' = [reqs EXCEPT ![s] = Return(r, EmptyObject)]
    /\ UNCHANGED <<variant, books, apiAuthors, nextId, ops>>

\* mutant: the catch block returns null, as that of the other queries does
CatchEmptyList_Null(r, error) ==
    IF error.code = "ECONNREFUSED"
    THEN Raise(r, PlainError("Error al conectar con el API"))
    ELSE Return(r, Null)

\* catch (error) { if (error.code === 'ECONNREFUSED') throw new Error(...); return []; }
\* of getAllBooksByAuthorName; a TypeError has no code
CatchEmptyList(r, error) ==
    IF error.code = "ECONNREFUSED"
    THEN Raise(r, PlainError("Error al conectar con el API"))
    ELSE Return(r, Some(<<>>))

TypeError == [code |-> "", message |-> "Cannot read properties of undefined (reading 'id')"]

Proxy_getAllBooksByAuthorName(s) ==
    /\ CanCallProxy(s)
    /\ \E authorName \in Names :
           Start(s, "getAllBooksByAuthorName", [authorName |-> Some(authorName)], "getAuthor")

Proxy_getAllBooksByAuthorName_getAuthor(s) ==
    /\ At(s, "getAllBooksByAuthorName", "getAuthor")
    /\ \E net \in NetOutcomes :
       LET r == Logged(reqs[s], "GET", "/authors?name=", net)
           author == AuthorsByName(r.args.authorName)
       IN  reqs' = [reqs EXCEPT ![s] =
               IF net # "ok" THEN CatchEmptyList(r, AxiosError(net))
               ELSE IF Len(author) = 0 THEN CatchEmptyList(r, TypeError)
               ELSE Goto([r EXCEPT !.local = Some(author[1].id)], "getBooks")]
    /\ ReadOnly

Proxy_getAllBooksByAuthorName_getBooks(s) ==
    /\ At(s, "getAllBooksByAuthorName", "getBooks")
    /\ \E net \in NetOutcomes :
       LET r == Logged(reqs[s], "GET", "/books?author_id=", net)
       IN  reqs' = [reqs EXCEPT ![s] =
               IF net # "ok" THEN CatchEmptyList(r, AxiosError(net))
               ELSE Return(r, Some(BooksByAuthorId(r.local[1])))]
    /\ ReadOnly

(***************************************************************************)
(* First program: updateBookInRestApi, the update that goes to the REST    *)
(* backend.  The books of that backend have the fields of the array.       *)
(***************************************************************************)
InitialRestBooks == <<InitialBooks[1]>>

\* argument bundles of updateBookInRestApi without the id
RestUpdateBookArgs ==
    {a \in UpdateBookArgs : Supplied(a, UpdateFields) \subseteq {"title", "description"}}

\* null.status
NullStatusError == PlainError("Cannot read properties of null (reading 'status')")

updateBookInRestApi(s) ==
    /\ variant = "embedded"
    /\ CanCall(s)
    /\ \E id \in IdArgs(apiBooks), args \in RestUpdateBookArgs :
           /\ ops' = ops + 1
           /\ reqs' = [reqs EXCEPT ![s] =
                  Await("updateBookInRestApi", WithId(args, id), "get", Backend)]
    /\ UNCHANGED <<variant, books, apiAuthors, apiBooks, nextId>>

\* axios.get(...).catch(function (error) { return null; }), then
\* if (responseExistsBook.status === 404) return null;
updateBookInRestApi_get(s) ==
    /\ variant = "embedded"
    /\ reqs[s].pc = "get" /\ reqs[s].op = "updateBookInRestApi"
    /\ \E net \in NetOutcomes :
       LET out == LookupOutcome(apiBooks, reqs[s].args.id, net)
           r == Logged(reqs[s], "GET", "/books/:id", out)
       IN  reqs' = [reqs EXCEPT ![s] =
               IF out # "ok"
               THEN Raise(r, NullStatusError)
               ELSE Goto([r EXCEPT !.local = Some(Lookup(apiBooks, r.args.id))], "put")]
    /\ ReadOnly

\* await axios.put(..., updatedBook), outside any try block
updateBookInRestApi_put(s) ==
    /\ variant = "embedded"
    /\ reqs[s].pc = "put" /\ reqs[s].op = "updateBookInRestApi"
    /\ \E net \in NetOutcomes :
       LET book == reqs[s].local[1]
           out == WriteOutcome(apiBooks, book.id, net)
           r == Logged(reqs[s], "PUT", "/books/:id", out)
           updatedBook == UpdatedBook(book, r.args)
       IN  IF out # "ok"
           THEN /\ reqs' = [reqs EXCEPT ![s] = Raise(r, PlainError(AxiosError(out).message))]
                /\ UNCHANGED apiBooks
           ELSE /\ apiBooks' = Replace(apiBooks, book.id, updatedBook)
                /\ reqs' = [reqs EXCEPT ![s] = Return(r, Some(updatedBook))]
    /\ UNCHANGED <<variant, books, apiAuthors, nextId, ops>>

\* the value or error of a finished resolver is sent to the client
Respond(s) ==
    /\ IsDone(s)
    /\ reqs' = [reqs EXCEPT ![s] = Idle]
    /\ UNCHANGED <<variant, books, apiAuthors, apiBooks, nextId, ops>>

Init ==
    /\ variant \in {"embedded", "proxy"}
    /\ books = IF variant = "embedded" THEN InitialBooks ELSE <<>>
    /\ apiAuthors = IF variant = "proxy" THEN InitialApiAuthors ELSE <<>>
    /\ apiBooks = IF variant = "proxy" THEN InitialApiBooks ELSE InitialRestBooks
    /\ nextId = 3
    /\ reqs = [s \in SeqSlots |-> Idle]
    /\ ops = 0

Next ==
    \E s \in SeqSlots :
        \/ addBook(s)
        \/ updateBook(s)
        \/ deleteBook(s)
        \/ Proxy_addAuthor(s)
        \/ Proxy_addAuthor_checkName(s)
        \/ Proxy_addAuthor_post(s)
        \/ Proxy_updateAuthor(s)
        \/ Proxy_updateAuthor_get(s)
        \/ Proxy_updateAuthor_checkName(s)
        \/ Proxy_updateAuthor_put(s)
        \/ Proxy_deleteAuthor(s)
        \/ Proxy_deleteAuthor_get(s)
        \/ Proxy_deleteAuthor_delete(s)
        \/ Proxy_addBook(s)
        \/ Proxy_addBook_checkTitle(s)
        \/ Proxy_addBook_checkAuthor(s)
        \/ Proxy_addBook_post(s)
        \/ Proxy_updateBook(s)
        \/ Proxy_updateBook_get(s)
        \/ Proxy_updateBook_checkTitle(s)
        \/ Proxy_updateBook_checkAuthor(s)
        \/ Proxy_updateBook_put(s)
        \/ Proxy_deleteBook(s)
        \/ Proxy_deleteBook_get(s)
        \/ Proxy_deleteBook_delete(s)
        \/ Proxy_getAllBooksByAuthorName(s)
        \/ Proxy_getAllBooksByAuthorName_getAuthor(s)
        \/ Proxy_getAllBooksByAuthorName_getBooks(s)
        \/ updateBookInRestApi(s)
        \/ updateBookInRestApi_get(s)
        \/ updateBookInRestApi_put(s)
        \/ Respond(s)

Spec == Init /\ [][Next]_vars

(***************************************************************************)
(* Concurrent specification.  The server takes a request while another is  *)
(* suspended at an await: two request slots, the steps of the two requests *)
(* interleave.  The requests are the book mutations of either variant,     *)
(* called with a title (addBook), with a book id and at most a new title   *)
(* (updateBook) or with a book id (deleteBook); the backend serves every   *)
(* outbound call.                                                          *)
(***************************************************************************)
ConcSlots == {1, 2}

\* the backend served every outbound call of the request (a 404 is an answer)
Answered(r) == \A k \in 1..Len(r.calls) : r.calls[k].outcome \in {"ok", "HTTP404"}

\* the requests of the concurrent specification
ConcRequest(r) ==
    /\ Answered(r)
    /\ r.op = "addBook" =>
           /\ r.args.description = Undefined
           /\ variant = "embedded" => r.args.publishYear = Undefined
           /\ variant = "proxy" =>
                  \E i \in 1..Len(r.pre.authors) : r.pre.authors[i].id = r.args.authorId[1]
    /\ r.op = "updateBook" =>
           /\ variant = "embedded" => Supplied(r.args, UpdateFields) \subseteq {"title"}
           /\ variant = "proxy" =>
                  Supplied(r.args, ProxyUpdateFields \cup {"authorId"}) \subseteq {"title"}
           /\ r.args.title # Some("")

\* the step of slot s is a step of such a request
Conc(s) == reqs[s].pc = "idle" \/ ConcRequest(reqs[s])

InitConc ==
    /\ variant \in {"embedded", "proxy"}
    /\ books = IF variant = "embedded" THEN InitialBooks ELSE <<>>
    /\ apiAuthors = IF variant = "proxy" THEN InitialApiAuthors ELSE <<>>
    /\ apiBooks = IF variant = "proxy" THEN InitialApiBooks ELSE InitialRestBooks
    /\ nextId = 3
    /\ reqs = [s \in ConcSlots |-> Idle]
    /\ ops = 0

NextConc ==
    \E s \in ConcSlots :
        \/ addBook(s) /\ Conc(s)'
        \/ updateBook(s) /\ Conc(s)'
        \/ deleteBook(s) /\ Conc(s)'
        \/ Proxy_addBook(s) /\ Conc(s)'
        \/ Proxy_addBook_checkTitle(s) /\ Conc(s)'
        \/ Proxy_addBook_checkAuthor(s) /\ Conc(s)'
        \/ Proxy_addBook_post(s) /\ Conc(s)'
        \/ Proxy_updateBook(s) /\ Conc(s)'
        \/ Proxy_updateBook_get(s) /\ Conc(s)'
        \/ Proxy_updateBook_checkTitle(s) /\ Conc(s)'
        \/ Proxy_updateBook_put(s) /\ Conc(s)'
        \/ Proxy_deleteBook(s) /\ Conc(s)'
        \/ Proxy_deleteBook_get(s) /\ Conc(s)'
        \/ Proxy_deleteBook_delete(s) /\ Conc(s)'
        \/ Respond(s)

SpecConc == InitConc /\ [][NextConc]_vars

(***************************************************************************)
(* Vocabulary of the properties.                                           *)
(***************************************************************************)
Slots == DOMAIN reqs

Finished(s, op) == IsDone(s) /\ reqs[s].op = op

IdsOf(table) == {table[i].id : i \in 1..Len(table)}

TitlesOf(table) == {table[i].title : i \in 1..Len(table)}

NamesOf(table) == {table[i].name : i \in 1..Len(table)}

Distinct(table, field) ==
    \A i, j \in 1..Len(table) : i # j => table[i][field] # table[j][field]

\* no outbound call of the request found the connection refused
Reachable(r) == \A k \in 1..Len(r.calls) : r.calls[k].outcome # "ECONNREFUSED"

Issued(r, method) == \E k \in 1..Len(r.calls) : r.calls[k].method = method

Failed(r) == r.err # NoError

HasCode(r, code) == r.err.code = Some(code)

(***************************************************************************)
(* C1.  Embedded variant: no two distinct books of the array have the same *)
(* title, whatever addBook, updateBook and deleteBook calls were made.     *)
(* (Violated: updateBook writes the supplied title without looking for     *)
(* another book that has it.)                                              *)
(***************************************************************************)
C1_EmbeddedTitlesDistinct == variant = "embedded" => Distinct(books, "title")

(***************************************************************************)
(* C2.  Proxy variant, one request at a time: no two distinct books of the *)
(* backend have the same title, whatever mutations were made.              *)
(***************************************************************************)
C2_ProxyTitlesDistinct == variant = "proxy" => Distinct(apiBooks, "title")

\* an updateBook has just given a book a title it did not have, in a
\* collection that holds other books
C2_Witness ==
    /\ variant = "proxy"
    /\ Len(apiBooks) >= 2
    /\ \E s \in Slots :
          /\ Finished(s, "updateBook")
          /\ ~Failed(reqs[s])
          /\ TruthyStr(reqs[s].args.title)
          /\ reqs[s].args.title # reqs[s].local[1].title
          /\ Lookup(apiBooks, reqs[s].args.id).title = reqs[s].args.title

(***************************************************************************)
(* C3.  In both variants an addBook whose title is the title of a book of  *)
(* the collection fails with code BAD_USER_INPUT and leaves the collection *)
(* as it was: no push in the embedded variant, no POST in the proxy        *)
(* variant (where the backend has answered the title lookup).              *)
(***************************************************************************)
C3_DuplicateTitleRejected ==
    \A s \in Slots :
        Finished(s, "addBook") /\ Answered(reqs[s]) =>
            /\ variant = "embedded" /\ reqs[s].args.title \in TitlesOf(reqs[s].pre) =>
                   /\ HasCode(reqs[s], "BAD_USER_INPUT")
                   /\ books = reqs[s].pre
            /\ variant = "proxy" /\ reqs[s].args.title \in TitlesOf(reqs[s].pre.books) =>
                   /\ HasCode(reqs[s], "BAD_USER_INPUT")
                   /\ ~Issued(reqs[s], "POST")
                   /\ apiBooks = reqs[s].pre.books

\* the proxy addBook has been refused a title that an earlier addBook stored
C3_Witness ==
    /\ variant = "proxy"
    /\ \E s \in Slots :
          /\ Finished(s, "addBook")
          /\ Answered(reqs[s])
          /\ HasCode(reqs[s], "BAD_USER_INPUT")
          /\ \E i \in 1..Len(apiBooks) :
                apiBooks[i].id >= 3 /\ apiBooks[i].title = reqs[s].args.title

(***************************************************************************)
(* C4.  Proxy variant: an addBook whose title is free and whose authorId   *)
(* is the id of no author fails with a BAD_USER_INPUT error that names the *)
(* author id, issues no POST and leaves the books as they were (the        *)
(* backend being reachable and serving the lookups).                       *)
(***************************************************************************)
C4_UnknownAuthorRejected ==
    \A s \in Slots :
        /\ variant = "proxy"
        /\ Finished(s, "addBook")
        /\ Answered(reqs[s])
        /\ reqs[s].args.title \notin TitlesOf(reqs[s].pre.books)
        /\ reqs[s].args.authorId[1] \notin IdsOf(reqs[s].pre.authors)
        => /\ reqs[s].err = BadUserInput("No existe el autor con el ID: ",
                                         reqs[s].args.authorId[1])
           /\ ~Issued(reqs[s], "POST")
           /\ apiBooks = reqs[s].pre.books

\* an addBook with a free title has been refused for its author id, which
\* was the id of an author until a deleteAuthor removed it
C4_Witness ==
    /\ variant = "proxy"
    /\ \E s \in Slots :
          /\ Finished(s, "addBook")
          /\ Answered(reqs[s])
          /\ reqs[s].args.title \notin TitlesOf(reqs[s].pre.books)
          /\ reqs[s].args.authorId[1] \notin IdsOf(reqs[s].pre.authors)
          /\ HasCode(reqs[s], "BAD_USER_INPUT")
          /\ Len(reqs[s].calls) = 2
          /\ Len(apiAuthors) < 2

(***************************************************************************)
(* C5.  In both variants a successful updateBook writes a record in which  *)
(* every supplied field has the supplied value and every omitted field     *)
(* (the author reference included) has the value it had before.            *)
(* (Violated in the proxy variant: with authorId omitted the record is     *)
(* written with author_id taken from book.authorName, which is undefined.) *)
(***************************************************************************)
TruthyField(f, x) == IF f \in {"publishYear", "year"} THEN TruthyInt(x) ELSE TruthyStr(x)

MergedAsAsked(args, old, new, fields) ==
    \A f \in fields :
        /\ args[f] = Undefined => new[f] = old[f]
        /\ TruthyField(f, args[f]) => new[f] = args[f]

C5_PartialUpdate ==
    \A s \in Slots :
        Finished(s, "updateBook") /\ ~Failed(reqs[s]) /\ reqs[s].result # Null =>
            /\ variant = "embedded" =>
                   MergedAsAsked(reqs[s].args, Lookup(reqs[s].pre, reqs[s].args.id),
                                 Lookup(books, reqs[s].args.id), UpdateFields)
            /\ variant = "proxy" =>
                   LET old == Lookup(reqs[s].pre.books, reqs[s].args.id)
                       new == Lookup(apiBooks, reqs[s].args.id)
                   IN  /\ MergedAsAsked(reqs[s].args, old, new, ProxyUpdateFields)
                       /\ reqs[s].args.authorId = Undefined => new.author_id = old.author_id
                       /\ reqs[s].args.authorId # Undefined =>
                              new.author_id = reqs[s].args.authorId

(***************************************************************************)
(* C6.  deleteBook with an id that no book has: the embedded variant       *)
(* returns null, raises nothing and leaves the array as it was; the proxy  *)
(* variant (the backend being reachable) fails with the BAD_USER_INPUT     *)
(* not-found error and issues no DELETE.                                   *)
(***************************************************************************)
C6_DeleteMissing ==
    \A s \in Slots :
        Finished(s, "deleteBook") =>
            /\ variant = "embedded" /\ reqs[s].args.id \notin IdsOf(reqs[s].pre) =>
                   /\ reqs[s].result = Null
                   /\ ~Failed(reqs[s])
                   /\ books = reqs[s].pre
            /\ /\ variant = "proxy"
               /\ reqs[s].args.id \notin IdsOf(reqs[s].pre.books)
               /\ Reachable(reqs[s])
               => /\ reqs[s].err = BadUserInput("No existe el libro con el ID: ",
                                                reqs[s].args.id)
                  /\ ~Issued(reqs[s], "DELETE")
                  /\ apiBooks = reqs[s].pre.books

\* the proxy deleteBook has been refused an id that no book has
C6_Witness ==
    /\ variant = "proxy"
    /\ \E s \in Slots :
          /\ Finished(s, "deleteBook")
          /\ reqs[s].args.id \notin IdsOf(reqs[s].pre.books)
          /\ reqs[s].calls = <<[method |-> "GET", url |-> "/books/:id", outcome |-> "HTTP404"]>>
          /\ HasCode(reqs[s], "BAD_USER_INPUT")

(***************************************************************************)
(* C7.  Proxy variant, the backend being reachable: when no author has the *)
(* name, and when the author of that name has no book,                     *)
(* getAllBooksByAuthorName returns the empty sequence, not null.           *)
(***************************************************************************)
C7_EmptyNotNull ==
    \A s \in Slots :
        /\ variant = "proxy"
        /\ Finished(s, "getAllBooksByAuthorName")
        /\ Reachable(reqs[s])
        /\ LET named == SelectSeq(reqs[s].pre.authors,
                                  LAMBDA a : a.name = reqs[s].args.authorName)
           IN  \/ Len(named) = 0
               \/ \A i \in 1..Len(reqs[s].pre.books) :
                     reqs[s].pre.books[i].author_id # Some(named[1].id)
        => reqs[s].result = Some(<<>>) /\ ~Failed(reqs[s])

\* the query has been answered for an author who exists and has no book
C7_Witness ==
    /\ variant = "proxy"
    /\ \E s \in Slots :
          /\ Finished(s, "getAllBooksByAuthorName")
          /\ Answered(reqs[s])
          /\ Len(reqs[s].calls) = 2
          /\ reqs[s].args.authorName \in NamesOf(apiAuthors)
          /\ reqs[s].result = Some(<<>>)

(***************************************************************************)
(* C8.  Proxy variant, one request at a time: no two distinct authors have *)
(* the same name, and an addAuthor or updateAuthor whose name is held by   *)
(* another author fails with BAD_USER_INPUT and writes nothing (the        *)
(* backend serving the lookups).                                           *)
(***************************************************************************)
C8_AuthorNamesDistinct ==
    /\ variant = "proxy" => Distinct(apiAuthors, "name")
    /\ \A s \in Slots :
          /\ variant = "proxy"
          /\ Finished(s, "addAuthor") \/ Finished(s, "updateAuthor")
          /\ Answered(reqs[s])
          /\ \E i \in 1..Len(reqs[s].pre.authors) :
                /\ reqs[s].pre.authors[i].name = reqs[s].args.name
                /\ reqs[s].op = "updateAuthor" => reqs[s].pre.authors[i].id # reqs[s].args.id
          => /\ HasCode(reqs[s], "BAD_USER_INPUT")
             /\ ~Issued(reqs[s], "POST")
             /\ ~Issued(reqs[s], "PUT")
             /\ apiAuthors = reqs[s].pre.authors

\* an updateAuthor of an existing author has been refused the name of
\* another author
C8_Witness ==
    /\ variant = "proxy"
    /\ \E s \in Slots :
          /\ Finished(s, "updateAuthor")
          /\ Answered(reqs[s])
          /\ Len(reqs[s].calls) = 2
          /\ reqs[s].err = BadUserInput("El nombre del libro ya existe", Undefined)
          /\ \E i \in 1..Len(apiAuthors) :
                apiAuthors[i].name = reqs[s].args.name /\ apiAuthors[i].id # reqs[s].args.id

(***************************************************************************)
(* C9.  Embedded variant: the ids of the books of the array are pairwise   *)
(* distinct; a successful addBook returns a book whose id no book had      *)
(* before; updateBook leaves the id of the book as it was; and an addBook  *)
(* with the title of a book already added fails with BAD_USER_INPUT.       *)
(***************************************************************************)
C9_EmbeddedIdsDistinct ==
    variant = "embedded" =>
        /\ Distinct(books, "id")
        /\ \A s \in Slots :
              /\ Finished(s, "addBook") /\ ~Failed(reqs[s]) =>
                     /\ reqs[s].result # Null
                     /\ reqs[s].result[1].id \notin IdsOf(reqs[s].pre)
                     /\ reqs[s].result[1] = books[Len(books)]
              /\ Finished(s, "updateBook") /\ reqs[s].result # Null =>
                     /\ reqs[s].result[1].id = reqs[s].args.id
                     /\ [i \in 1..Len(books) |-> books[i].id]
                          = [i \in 1..Len(reqs[s].pre) |-> reqs[s].pre[i].id]
              /\ Finished(s, "addBook") /\ reqs[s].args.title \in TitlesOf(reqs[s].pre) =>
                     HasCode(reqs[s], "BAD_USER_INPUT")

\* addBook has been called a second time with the title of a book that an
\* earlier addBook pushed, and has failed
C9_Witness ==
    /\ variant = "embedded"
    /\ \E s \in Slots :
          /\ Finished(s, "addBook")
          /\ HasCode(reqs[s], "BAD_USER_INPUT")
          /\ \E i \in 1..Len(books) :
                books[i].id >= 3 /\ books[i].title = reqs[s].args.title

(***************************************************************************)
(* C10.  Proxy variant, every mutation, every outbound call: a refused     *)
(* connection yields the error 'Error al conectar con el API', and every   *)
(* other failure of the backend (a 500 response) is raised again as an     *)
(* error that carries the message of the failure, never as a               *)
(* BAD_USER_INPUT error.                                                   *)
(* (Violated: the point lookups report every failure other than a refused  *)
(* connection as a BAD_USER_INPUT not-found error.)                        *)
(***************************************************************************)
Mutations ==
    {"addAuthor", "updateAuthor", "deleteAuthor", "addBook", "updateBook", "deleteBook"}

LastCall(r) == r.calls[Len(r.calls)]

C10_FailuresClassified ==
    \A s \in Slots :
        variant = "proxy" /\ IsDone(s) /\ reqs[s].op \in Mutations =>
            /\ LastCall(reqs[s]).outcome = "ECONNREFUSED" =>
                   reqs[s].err = PlainError("Error al conectar con el API")
            /\ LastCall(reqs[s]).outcome = "HTTP500" =>
                   reqs[s].err = PlainError(AxiosError("HTTP500").message)

(***************************************************************************)
(* C11.  Proxy variant, two requests in flight.  Every title check that    *)
(* lets a request go on was answered when no other book had the title, and *)
(* titles stop being distinct only by the POST or PUT of a request that is *)
(* past its checks; yet two addBook requests with the same title and valid *)
(* author ids can both pass the check and both POST (the witness), and so  *)
(* can an updateBook and an addBook.                                       *)
(***************************************************************************)
TitleChecks == {"/books?title=", "/books?title=&id_ne="}

PassedTitleCheck(r) ==
    \E k \in 1..Len(r.calls) : r.calls[k].url \in TitleChecks /\ r.calls[k].outcome = "ok"

C11_CheckThenWrite ==
    [][variant = "proxy" =>
          /\ \A s \in Slots :
                reqs[s].pc = "checkTitle" /\ reqs'[s].pc \notin {"checkTitle", "done"} =>
                    \A i \in 1..Len(apiBooks) :
                        apiBooks[i].title = reqs[s].args.title =>
                            reqs[s].op = "updateBook" /\ apiBooks[i].id = reqs[s].args.id
          /\ Distinct(apiBooks, "title") /\ ~Distinct(apiBooks', "title") =>
                \E s \in Slots :
                    /\ reqs[s].pc \in {"post", "put"}
                    /\ reqs'[s].pc = "done"
                    /\ ~Failed(reqs'[s])
                    /\ PassedTitleCheck(reqs[s]) \/ reqs[s].args.title = Undefined]_vars

\* two addBook requests with the same title have both passed the title
\* check and both POSTed: the backend holds two books of that title
C11_Witness ==
    /\ variant = "proxy"
    /\ Finished(1, "addBook") /\ Finished(2, "addBook")
    /\ reqs[1].args.title = reqs[2].args.title
    /\ \A s \in {1, 2} :
          /\ ~Failed(reqs[s])
          /\ PassedTitleCheck(reqs[s])
          /\ Issued(reqs[s], "POST")
          /\ reqs[s].result[1] = Lookup(apiBooks, reqs[s].result[1].id)
    /\ reqs[1].result[1].id # reqs[2].result[1].id
    /\ ~Distinct(apiBooks, "title")

\* an updateBook and an addBook with the same title have both passed the
\* title check and both written
C11_UpdateAddRace ==
    /\ variant = "proxy"
    /\ \E s, t \in Slots :
          /\ Finished(s, "updateBook") /\ Finished(t, "addBook")
          /\ reqs[s].args.title = reqs[t].args.title
          /\ ~Failed(reqs[s]) /\ ~Failed(reqs[t])
          /\ PassedTitleCheck(reqs[s]) /\ PassedTitleCheck(reqs[t])
          /\ Issued(reqs[s], "PUT") /\ Issued(reqs[t], "POST")
          /\ Lookup(apiBooks, reqs[s].args.id).title = reqs[s].args.title
          /\ Lookup(apiBooks, reqs[t].result[1].id).title = reqs[s].args.title

(***************************************************************************)
(* C12.  Embedded variant, two requests in flight.  A resolver is never    *)
(* suspended: a request is answered in the step that takes it.  Every      *)
(* addBook has the outcome of running alone on the array it found (it      *)
(* fails exactly when the array held its title, else it pushes one book    *)
(* under a fresh id); when every slot holds an answered request the array  *)
(* is what one of them left; and of two addBook requests with the same     *)
(* title, one running right after the other, the second fails.             *)
(***************************************************************************)
\* the array the embedded call of r left
PostOf(r) ==
    IF Failed(r) \/ r.result = Null THEN r.pre
    ELSE CASE r.op = "addBook" -> Append(r.pre, r.result[1])
           [] r.op = "updateBook" -> [r.pre EXCEPT ![FindIndex(r.pre, r.args.id)] = r.result[1]]
           [] r.op = "deleteBook" -> Splice(r.pre, FindIndex(r.pre, r.args.id))

C12_EmbeddedSerial ==
    variant = "embedded" =>
        /\ \A s \in Slots : reqs[s].pc \in {"idle", "done"}
        /\ \A s \in Slots :
              Finished(s, "addBook") =>
                  /\ Failed(reqs[s]) <=> reqs[s].args.title \in TitlesOf(reqs[s].pre)
                  /\ Failed(reqs[s]) => HasCode(reqs[s], "BAD_USER_INPUT")
                  /\ ~Failed(reqs[s]) => reqs[s].result[1].id \notin IdsOf(reqs[s].pre)
        /\ (\A s \in Slots : IsDone(s)) => \E s \in Slots : books = PostOf(reqs[s])
        /\ \A s, t \in Slots :
              /\ s # t
              /\ Finished(s, "addBook") /\ Finished(t, "addBook")
              /\ reqs[s].args.title = reqs[t].args.title
              /\ reqs[t].pre = PostOf(reqs[s])
              => /\ Failed(reqs[t])
                 /\ books = PostOf(reqs[s])

\* two addBook requests with the same new title were in flight: the first
\* pushed its book, the second was refused
C12_Witness ==
    /\ variant = "embedded"
    /\ \E s, t \in Slots :
          /\ s # t
          /\ Finished(s, "addBook") /\ Finished(t, "addBook")
          /\ reqs[s].args.title = reqs[t].args.title
          /\ reqs[s].args.title \notin TitlesOf(reqs[s].pre)
          /\ ~Failed(reqs[s])
          /\ reqs[t].pre = PostOf(reqs[s])
          /\ HasCode(reqs[t], "BAD_USER_INPUT")
          /\ Len(books) = Len(reqs[s].pre) + 1

(***************************************************************************)
(* C13.  Proxy variant, the backend serving the calls: the uniqueness      *)
(* check of an update leaves out the record that is updated.  updateBook   *)
(* of an existing book with the title it has already succeeds and PUTs     *)
(* (its authorId, when supplied, being the id of an author); with the      *)
(* title of a book of another id it fails with BAD_USER_INPUT and writes   *)
(* nothing.  The same holds of updateAuthor and the name.                  *)
(***************************************************************************)
HeldByOther(table, field, value, id) ==
    \E i \in 1..Len(table) : table[i][field] = value /\ table[i].id # id

C13_OwnValueAllowed ==
    \A s \in Slots :
        variant = "proxy" /\ IsDone(s) /\ Answered(reqs[s]) =>
            /\ /\ reqs[s].op = "updateBook"
               /\ reqs[s].args.id \in IdsOf(reqs[s].pre.books)
               /\ TruthyStr(reqs[s].args.title)
               => /\ HeldByOther(reqs[s].pre.books, "title", reqs[s].args.title, reqs[s].args.id)
                     => /\ reqs[s].err = BadUserInput("El titulo del libro ya existe", Undefined)
                        /\ ~Issued(reqs[s], "PUT")
                        /\ apiBooks = reqs[s].pre.books
                  /\ /\ Lookup(reqs[s].pre.books, reqs[s].args.id).title = reqs[s].args.title
                     /\ ~HeldByOther(reqs[s].pre.books, "title", reqs[s].args.title,
                                     reqs[s].args.id)
                     /\ reqs[s].args.authorId # Undefined =>
                            reqs[s].args.authorId[1] \in IdsOf(reqs[s].pre.authors)
                     => /\ ~Failed(reqs[s])
                        /\ Issued(reqs[s], "PUT")
                        /\ Lookup(apiBooks, reqs[s].args.id).title = reqs[s].args.title
            /\ /\ reqs[s].op = "updateAuthor"
               /\ reqs[s].args.id \in IdsOf(reqs[s].pre.authors)
               /\ TruthyStr(reqs[s].args.name)
               => /\ HeldByOther(reqs[s].pre.authors, "name", reqs[s].args.name, reqs[s].args.id)
                     => /\ HasCode(reqs[s], "BAD_USER_INPUT")
                        /\ ~Issued(reqs[s], "PUT")
                        /\ apiAuthors = reqs[s].pre.authors
                  /\ /\ Lookup(reqs[s].pre.authors, reqs[s].args.id).name = reqs[s].args.name
                     /\ ~HeldByOther(reqs[s].pre.authors, "name", reqs[s].args.name,
                                     reqs[s].args.id)
                     => /\ ~Failed(reqs[s])
                        /\ Issued(reqs[s], "PUT")
                        /\ Lookup(apiAuthors, reqs[s].args.id).name = reqs[s].args.name

\* updateBook has been served with the title the book already had, in a
\* collection that holds another book
C13_Witness ==
    /\ variant = "proxy"
    /\ \E s \in Slots :
          /\ Finished(s, "updateBook")
          /\ Answered(reqs[s])
          /\ ~Failed(reqs[s])
          /\ Len(reqs[s].pre.books) >= 2
          /\ Lookup(reqs[s].pre.books, reqs[s].args.id).title = reqs[s].args.title
          /\ PassedTitleCheck(reqs[s])
          /\ Issued(reqs[s], "PUT")

(***************************************************************************)
(* C14 as stated.  Proxy variant: updateBook checks the title first, then  *)
(* the author, then the existence of the book, so that an updateBook of an *)
(* id that no book has, with the title of a book, fails with the title     *)
(* error.  (Violated: the lookup of the book comes first and the call      *)
(* fails with the not-found error.)                                        *)
(***************************************************************************)
C14_UniquenessFirst ==
    \A s \in Slots :
        /\ variant = "proxy"
        /\ Finished(s, "updateBook")
        /\ Answered(reqs[s])
        /\ reqs[s].args.id \notin IdsOf(reqs[s].pre.books)
        /\ TruthyStr(reqs[s].args.title)
        /\ reqs[s].args.title \in TitlesOf(reqs[s].pre.books)
        => reqs[s].err = BadUserInput("El titulo del libro ya existe", Undefined)

(***************************************************************************)
(* C14 as amended.  Proxy variant: updateBook makes its outbound calls in  *)
(* the order (1) lookup of the book, (2) title check, (3) lookup of the    *)
(* author, (4) PUT, and the first step that fails decides the error: an id *)
(* that no book has gives the not-found error after the one lookup,        *)
(* whatever the title; for a book that exists, the title of another book   *)
(* gives the title error, whatever the authorId; and an authorId that no   *)
(* author has gives the author error only when the title check passed or   *)
(* was not made.                                                           *)
(***************************************************************************)
\* the place of an outbound call in the resolver of updateBook
Rank(call) ==
    CASE call.method = "GET" /\ call.url = "/books/:id" -> 1
      [] call.url = "/books?title=&id_ne=" -> 2
      [] call.url = "/authors/:id" -> 3
      [] call.method = "PUT" -> 4

C14_ExistenceFirst ==
    \A s \in Slots :
        variant = "proxy" /\ ~IsIdle(s) /\ reqs[s].op = "updateBook" =>
            LET r == reqs[s]
                missing == r.args.id \notin IdsOf(r.pre.books)
                taken == /\ TruthyStr(r.args.title)
                         /\ HeldByOther(r.pre.books, "title", r.args.title, r.args.id)
                orphan == /\ r.args.authorId # Undefined
                          /\ r.args.authorId[1] \notin IdsOf(r.pre.authors)
            IN  /\ Len(r.calls) > 0 => Rank(r.calls[1]) = 1
                /\ \A k \in 1..(Len(r.calls) - 1) : Rank(r.calls[k]) < Rank(r.calls[k + 1])
                /\ IsDone(s) /\ Answered(r) =>
                       /\ missing =>
                              /\ r.err = BadUserInput("No existe el libro con el ID: ", r.args.id)
                              /\ Len(r.calls) = 1
                       /\ ~missing /\ taken =>
                              r.err = BadUserInput("El titulo del libro ya existe", Undefined)
                       /\ ~missing /\ ~taken /\ orphan =>
                              r.err = BadUserInput("No existe el autor con el ID: ",
                                                   r.args.authorId[1])
                       /\ ~missing /\ ~taken /\ ~orphan => ~Failed(r)

\* updateBook of an id that no book has, with the title of a book, has
\* failed with the not-found error after the lookup of the book
C14_Witness ==
    /\ variant = "proxy"
    /\ \E s \in Slots :
          /\ Finished(s, "updateBook")
          /\ Answered(reqs[s])
          /\ reqs[s].args.id \notin IdsOf(reqs[s].pre.books)
          /\ TruthyStr(reqs[s].args.title)
          /\ reqs[s].args.title \in TitlesOf(reqs[s].pre.books)
          /\ reqs[s].err = BadUserInput("No existe el libro con el ID: ", reqs[s].args.id)
          /\ Len(reqs[s].calls) = 1

(***************************************************************************)
(* C15 as stated.  Proxy variant, the backend serving the calls: every     *)
(* updateBook of an existing book whose authorId is the id of no author    *)
(* fails with the BAD_USER_INPUT error that names the author id, issues no *)
(* PUT and leaves the books as they were; updateBook of an id that no book *)
(* has fails with the not-found error and writes nothing.                  *)
(* (Violated: when the title is that of another book the title check,      *)
(* which comes first, fails and the error names the title.)                *)
(***************************************************************************)
OrphanAuthor(r) ==
    r.args.authorId # Undefined /\ r.args.authorId[1] \notin IdsOf(r.pre.authors)

NoWrite(r) == ~Issued(r, "POST") /\ ~Issued(r, "PUT") /\ ~Issued(r, "DELETE")

MissingBookRejected(r) ==
    r.args.id \notin IdsOf(r.pre.books) =>
        /\ r.err = BadUserInput("No existe el libro con el ID: ", r.args.id)
        /\ NoWrite(r)
        /\ apiBooks = r.pre.books

C15_UnknownAuthorNamed ==
    \A s \in Slots :
        variant = "proxy" /\ Finished(s, "updateBook") /\ Answered(reqs[s]) =>
            /\ reqs[s].args.id \in IdsOf(reqs[s].pre.books) /\ OrphanAuthor(reqs[s]) =>
                   /\ reqs[s].err = BadUserInput("No existe el autor con el ID: ",
                                                 reqs[s].args.authorId[1])
                   /\ ~Issued(reqs[s], "PUT")
                   /\ apiBooks = reqs[s].pre.books
            /\ MissingBookRejected(reqs[s])

(***************************************************************************)
(* C15 as amended.  The same, for the updateBook calls whose title, when   *)
(* supplied, is not the title of another book; when it is, the call fails  *)
(* with the BAD_USER_INPUT title error, and still issues no PUT and leaves *)
(* the books as they were.                                                 *)
(***************************************************************************)
TitleTaken(r) ==
    TruthyStr(r.args.title) /\ HeldByOther(r.pre.books, "title", r.args.title, r.args.id)

C15_UnknownAuthorRejected ==
    \A s \in Slots :
        variant = "proxy" /\ Finished(s, "updateBook") /\ Answered(reqs[s]) =>
            /\ reqs[s].args.id \in IdsOf(reqs[s].pre.books) /\ OrphanAuthor(reqs[s]) =>
                   /\ HasCode(reqs[s], "BAD_USER_INPUT")
                   /\ ~TitleTaken(reqs[s]) =>
                          reqs[s].err = BadUserInput("No existe el autor con el ID: ",
                                                     reqs[s].args.authorId[1])
                   /\ TitleTaken(reqs[s]) =>
                          reqs[s].err = BadUserInput("El titulo del libro ya existe", Undefined)
                   /\ ~Issued(reqs[s], "PUT")
                   /\ apiBooks = reqs[s].pre.books
            /\ MissingBookRejected(reqs[s])

\* updateBook of an existing book, with a free title and an authorId that
\* no author has, has passed the title check and failed at the author's
C15_Witness ==
    /\ variant = "proxy"
    /\ \E s \in Slots :
          /\ Finished(s, "updateBook")
          /\ Answered(reqs[s])
          /\ reqs[s].args.id \in IdsOf(reqs[s].pre.books)
          /\ OrphanAuthor(reqs[s])
          /\ PassedTitleCheck(reqs[s])
          /\ Len(reqs[s].calls) = 3
          /\ reqs[s].err = BadUserInput("No existe el autor con el ID: ",
                                        reqs[s].args.authorId[1])
          /\ Lookup(apiBooks, reqs[s].args.id).author_id = Some(1)

(***************************************************************************)
(* C16.  In both variants an updateBook of an existing book that supplies  *)
(* a falsy argument (0 for the year, "" for title, description, isbn or    *)
(* publisher) does what the same call without that argument does: it       *)
(* succeeds, the stored field keeps the value it had, the stored record is *)
(* the one the call without the argument stores, and in the proxy variant  *)
(* an empty title causes no title check (the backend serving the calls).   *)
(***************************************************************************)
FalsyFields == {"title", "description", "isbn", "publisher", "publishYear", "year"}

Omitting(args, f) == [args EXCEPT ![f] = Undefined]

C16_FalsyAsOmitted ==
    \A s \in Slots :
        Finished(s, "updateBook") =>
            /\ variant = "embedded" /\ reqs[s].args.id \in IdsOf(reqs[s].pre) =>
                   \A f \in FalsyFields \cap UpdateFields :
                       FalsyArg(f, reqs[s].args[f]) =>
                           LET old == Lookup(reqs[s].pre, reqs[s].args.id)
                               new == Lookup(books, reqs[s].args.id)
                           IN  /\ ~Failed(reqs[s])
                               /\ reqs[s].result = Some(new)
                               /\ new[f] = old[f]
                               /\ new = UpdatedBook(old, Omitting(reqs[s].args, f))
            /\ /\ variant = "proxy"
               /\ reqs[s].args.id \in IdsOf(reqs[s].pre.books)
               /\ Answered(reqs[s])
               /\ ~OrphanAuthor(reqs[s])
               /\ ~TitleTaken(reqs[s])
               => \A f \in FalsyFields \cap ProxyUpdateFields :
                       FalsyArg(f, reqs[s].args[f]) =>
                           LET old == Lookup(reqs[s].pre.books, reqs[s].args.id)
                               new == Lookup(apiBooks, reqs[s].args.id)
                           IN  /\ ~Failed(reqs[s])
                               /\ reqs[s].result = Some(new)
                               /\ new[f] = old[f]
                               /\ new = [id |-> old.id]
                                           @@ UpdatedBookData(old, Omitting(reqs[s].args, f))
                               /\ f = "title" => ~PassedTitleCheck(reqs[s])
                               /\ Len(reqs[s].calls) = 2

\* the proxy updateBook has been called with year 0 on a book of 1899 and
\* has PUT the book with its year unchanged
C16_Witness ==
    /\ variant = "proxy"
    /\ \E s \in Slots :
          /\ Finished(s, "updateBook")
          /\ Answered(reqs[s])
          /\ ~Failed(reqs[s])
          /\ reqs[s].args.year = Some(0)
          /\ Issued(reqs[s], "PUT")
          /\ Lookup(reqs[s].pre.books, reqs[s].args.id).year = Some(1899)
          /\ Lookup(apiBooks, reqs[s].args.id).year = Some(1899)

(***************************************************************************)
(* C17.  Proxy variant, every mutation, at every moment of its run: no     *)
(* outbound call is made twice; a write (POST, PUT, DELETE) is the last    *)
(* call, is made once, and comes after every check the mutation has to     *)
(* make, all of them answered; a call that fails is the last call, and the *)
(* mutation has ended with an error.                                       *)
(***************************************************************************)
Writes == {"POST", "PUT", "DELETE"}

\* the lookups a mutation makes before it writes
ChecksOf(r) ==
    CASE r.op = "addAuthor" -> {"/authors?name="}
      [] r.op = "updateAuthor" ->
           {"/authors/:id"}
             \cup (IF TruthyStr(r.args.name) THEN {"/authors?name=&id_ne="} ELSE {})
      [] r.op = "deleteAuthor" -> {"/authors/:id"}
      [] r.op = "addBook" -> {"/books?title=", "/authors/:id"}
      [] r.op = "updateBook" ->
           {"/books/:id"}
             \cup (IF TruthyStr(r.args.title) THEN {"/books?title=&id_ne="} ELSE {})
             \cup (IF r.args.authorId # Undefined THEN {"/authors/:id"} ELSE {})
      [] r.op = "deleteBook" -> {"/books/:id"}

C17_NoRetryOneWrite ==
    \A s \in Slots :
        variant = "proxy" /\ ~IsIdle(s) /\ reqs[s].op \in Mutations =>
            LET r == reqs[s]
                n == Len(r.calls)
            IN  /\ \A j, k \in 1..n :
                      j < k => <<r.calls[j].method, r.calls[j].url>>
                                 # <<r.calls[k].method, r.calls[k].url>>
                /\ \A k \in 1..n :
                      r.calls[k].method \in Writes =>
                          /\ k = n
                          /\ {r.calls[j].url : j \in 1..(k - 1)} = ChecksOf(r)
                          /\ \A j \in 1..(k - 1) : r.calls[j].method = "GET"
                          /\ IsDone(s)
                /\ \A k \in 1..(n - 1) : r.calls[k].outcome = "ok"
                /\ n > 0 /\ r.calls[n].outcome # "ok" => IsDone(s) /\ Failed(r)
                /\ Failed(r) /\ (n = 0 \/ ~(r.calls[n].method \in Writes)) =>
                      apiBooks = r.pre.books /\ apiAuthors = r.pre.authors

\* an updateBook has passed the lookup of the book and the title check,
\* has found the connection refused at the lookup of the author and has
\* ended there, without a PUT
C17_Witness ==
    /\ variant = "proxy"
    /\ \E s \in Slots :
          /\ Finished(s, "updateBook")
          /\ Len(reqs[s].calls) = 3
          /\ reqs[s].calls[3].url = "/authors/:id"
          /\ reqs[s].calls[3].outcome = "ECONNREFUSED"
          /\ Failed(reqs[s])
          /\ ~Issued(reqs[s], "PUT")
          /\ apiBooks = reqs[s].pre.books

(***************************************************************************)
(* C18.  Proxy variant, one request at a time: the author_id of every book *)
(* of the backend is the id of an author of the backend.                   *)
(* (Violated: updateBook without authorId PUTs the book with author_id     *)
(* undefined, and deleteAuthor removes an author whose books remain.)      *)
(***************************************************************************)
C18_AuthorRefsResolve ==
    variant = "proxy" =>
        \A i \in 1..Len(apiBooks) :
            /\ apiBooks[i].author_id # Undefined
            /\ apiBooks[i].author_id[1] \in IdsOf(apiAuthors)

\* the same, in the runs in which no deleteAuthor has removed an author
C18_AuthorRefsKeptByBooks ==
    variant = "proxy" /\ IdsOf(InitialApiAuthors) \subseteq IdsOf(apiAuthors) =>
        \A i \in 1..Len(apiBooks) :
            /\ apiBooks[i].author_id # Undefined
            /\ apiBooks[i].author_id[1] \in IdsOf(apiAuthors)

(***************************************************************************)
(* C19.  First program: updateBookInRestApi with an id that the backend    *)
(* does not have (the lookup is answered 404) returns null, raises nothing *)
(* and issues no PUT.                                                      *)
(* (Violated: the catch handler makes the response null and the test of    *)
(* responseExistsBook.status throws a TypeError.)                          *)
(***************************************************************************)
C19_MissingIdReturnsNull ==
    \A s \in Slots :
        /\ Finished(s, "updateBookInRestApi")
        /\ reqs[s].calls[1].outcome = "HTTP404"
        => /\ reqs[s].result = Null
           /\ ~Failed(reqs[s])
           /\ ~Issued(reqs[s], "PUT")

(***************************************************************************)
(* C20.  Embedded variant: deleteBook with the id of a book returns that   *)
(* book and removes it and nothing else: the other books are as they were, *)
(* in the order they had, getBooksCount is one less and getBook finds the  *)
(* id no more.  updateBook and deleteBook with an id that no book has      *)
(* return null, raise nothing and leave the array as it was.               *)
(***************************************************************************)
C20_DeleteFrame ==
    variant = "embedded" =>
        \A s \in Slots :
            /\ Finished(s, "deleteBook") /\ reqs[s].args.id \in IdsOf(reqs[s].pre) =>
                   /\ ~Failed(reqs[s])
                   /\ reqs[s].result = Some(Lookup(reqs[s].pre, reqs[s].args.id))
                   /\ books = SelectSeq(reqs[s].pre, LAMBDA b : b.id # reqs[s].args.id)
                   /\ getBooksCount = Len(reqs[s].pre) - 1
                   /\ getBook(reqs[s].args.id) = Undefined
            /\ /\ Finished(s, "deleteBook") \/ Finished(s, "updateBook")
               /\ reqs[s].args.id \notin IdsOf(reqs[s].pre)
               => /\ reqs[s].result = Null
                  /\ ~Failed(reqs[s])
                  /\ books = reqs[s].pre
                  /\ getBooksCount = Len(reqs[s].pre)

\* deleteBook has removed the first of three books: the two others remain,
\* in their order
C20_Witness ==
    /\ variant = "embedded"
    /\ \E s \in Slots :
          /\ Finished(s, "deleteBook")
          /\ Len(reqs[s].pre) = 3
          /\ reqs[s].args.id = reqs[s].pre[1].id
          /\ reqs[s].result = Some(reqs[s].pre[1])
          /\ books = <<reqs[s].pre[2], reqs[s].pre[3]>>
          /\ getBooksCount = 2

====
